---- MODULE Spec2Model ----
(***************************************************************************)
(* Model of src/main.py: the Zalo backup importer.                         *)
(*                                                                         *)
(*   extract_zalo_backup      IV selection, output directory, account id   *)
(*   load_zalo_conversations  one upsert of servers/channels per log line  *)
(*   load_zalo_messages       quote handling, dispatch on msgType, upserts *)
(*   main                     extract, then the two loaders, one commit    *)
(*                            per line; an exception ends the process and  *)
(*                            the statements of the line in flight are     *)
(*                            never committed                              *)
(*                                                                         *)
(* Text of the logs and of Index.db (ids, names, message text, URLs) is a   *)
(* sequence of Unicode code points: "g1" is <<103, 49>>. A Python int is   *)
(* its sign and its decimal digits, for Python ints have no width and the  *)
(* ids of a log do not fit the integers of TLC. The keys of a JSON object  *)
(* and the constants the code writes ("GROUP", "DM") are TLA+ strings. The *)
(* Unicode tables are those of Unicode 14.0, the version of CPython 3.11;  *)
(* urlparse and ipaddress are those of CPython 3.11.6.                     *)
(***************************************************************************)
EXTENDS Integers, Sequences, FiniteSets, TLC

VARIABLES
    convLog,    \* lines of <uid>_zconversation.zdb
    msgLog,     \* lines of <uid>_zmessage.zdb
    uid,        \* account id returned by extract_zalo_backup
    db,         \* committed content of the DHT database
    conn,       \* content seen through the open connection (db + open transaction)
    index,      \* name-resolver connection of the current run, or NoIndex
    phase,      \* "idle" | "conv" | "msg"
    pos,        \* number of the next line of the log being read
    run,        \* number of runs of main started so far
    hist,       \* one record per finished run: its index, outcome and final db
    dkey,       \* extract_zalo_backup: passphrase bytes
    nsuffix,    \* extract_zalo_backup: len(path.suffixes)
    outdir,     \* extract_zalo_backup: entries of the output directory
    tarTop,     \* extract_zalo_backup: top-level entries of the archive
    xpc,        \* extract_zalo_backup: "start" | "keyed" | "returned" | "raised"
    iv,         \* extract_zalo_backup: the IV handed to AES.new
    ret         \* extract_zalo_backup: the returned value

importVars ==
    <<convLog, msgLog, uid, db, conn, index, phase, pos, run, hist>>
extractVars == <<dkey, nsuffix, outdir, tarTop, xpc, iv, ret>>
vars == <<importVars, extractVars>>

----------------------------------------------------------------------------
(* Bounds of the model.                                                    *)

MaxConvLines == 2
MaxMsgLines == 2
MaxRuns == 2
MaxKeyLen == 14
MaxStale == 1
MaxTarTop == 2

----------------------------------------------------------------------------
(* Text: int(), f-strings, str.lower(), LIKE.                              *)

\* The code point of the digit zero of every script whose ten decimal digits
\* int() accepts (Unicode category Nd): "0", ARABIC-INDIC DIGIT ZERO, ...
DigitZeros ==
    {48, 1632, 1776, 1984, 2406, 2534, 2662, 2790, 2918, 3046, 3174, 3302,
      3430, 3558, 3664, 3792, 3872, 4160, 4240, 6112, 6160, 6470, 6608, 6784,
      6800, 6992, 7088, 7232, 7248, 42528, 43216, 43264, 43472, 43504, 43600,
      44016, 65296, 66720, 68912, 69734, 69872, 69942, 70096, 70384, 70736,
      70864, 71248, 71360, 71472, 71904, 72016, 72784, 73040, 73120, 92768,
      92864, 93008, 120782, 120792, 120802, 120812, 120822, 123200, 123632,
      125264, 130032}

\* The characters int() strips from both ends of its argument.
Whitespace ==
    {32, 133, 160, 5760, 8239, 8287, 12288}
        \cup (9..13) \cup (8192..8202) \cup (8232..8233)

IsDigit(c) == \E z \in DigitZeros : z <= c /\ c <= z + 9

DigitVal(c) == c - (CHOOSE z \in DigitZeros : z <= c /\ c <= z + 9)

IsSpace(c) == c \in Whitespace

RECURSIVE StripLeft(_)
StripLeft(s) == IF s # <<>> /\ IsSpace(Head(s)) THEN StripLeft(Tail(s)) ELSE s

RECURSIVE StripRight(_)
StripRight(s) ==
    IF s # <<>> /\ IsSpace(s[Len(s)]) THEN StripRight(SubSeq(s, 1, Len(s) - 1))
    ELSE s

\* the argument of int() without the surrounding whitespace
Strip(s) == StripRight(StripLeft(s))

\* a leading "+" or "-"
HasSign(t) == t # <<>> /\ t[1] \in {43, 45}

\* the digits and underscores that follow the optional sign
Unsigned(t) == IF HasSign(t) THEN Tail(t) ELSE t

\* int(s) succeeds: optional whitespace, an optional sign, decimal digits with
\* single underscores between them, optional whitespace; no more than 4300
\* digits
IsInt(s) ==
    LET b == Unsigned(Strip(s))
    IN  /\ b # <<>>
        /\ IsDigit(b[1])
        /\ IsDigit(b[Len(b)])
        /\ \A i \in 1..Len(b) : IsDigit(b[i]) \/ b[i] = 95
        /\ \A i \in 1..(Len(b) - 1) : ~(b[i] = 95 /\ b[i + 1] = 95)
        /\ Cardinality({i \in 1..Len(b) : IsDigit(b[i])}) <= 4300

\* A Python int: neg is its sign, mag the decimal digits of its magnitude,
\* most significant first and without leading zeros. Zero is PyInt(FALSE, <<0>>).
PyInt(neg, mag) == [neg |-> neg, mag |-> mag]

RECURSIVE TrimZeros(_)
\* the digits without their leading zeros; one digit at least stays
TrimZeros(d) == IF Len(d) > 1 /\ d[1] = 0 THEN TrimZeros(Tail(d)) ELSE d

\* the value of digits and underscores
Magnitude(b) ==
    LET ds == SelectSeq(b, IsDigit)
    IN  TrimZeros([i \in 1..Len(ds) |-> DigitVal(ds[i])])

\* int(s), where IsInt(s)
ParseInt(s) ==
    LET t == Strip(s)
        m == Magnitude(Unsigned(t))
    IN  PyInt(HasSign(t) /\ t[1] = 45 /\ m # <<0>>, m)

\* f"{n}"
IntToStr(n) ==
    (IF n.neg THEN <<45>> ELSE <<>>) \o [i \in 1..Len(n.mag) |-> 48 + n.mag[i]]

\* the digits of 2^63 - 1 and of 2^63
MaxInt64 == <<9, 2, 2, 3, 3, 7, 2, 0, 3, 6, 8, 5, 4, 7, 7, 5, 8, 0, 7>>
MinInt64 == <<9, 2, 2, 3, 3, 7, 2, 0, 3, 6, 8, 5, 4, 7, 7, 5, 8, 0, 8>>

\* magnitude a is at most magnitude b
MagLeq(a, b) ==
    \/ Len(a) < Len(b)
    \/ /\ Len(a) = Len(b)
       /\ \/ a = b
          \/ \E i \in 1..Len(a) :
                 a[i] < b[i] /\ \A j \in 1..(i - 1) : a[j] = b[j]

\* sqlite3 binds a Python int as an SQLite INTEGER of 64 bits; the statement
\* raises OverflowError for an int below -2^63 or above 2^63 - 1
FitsInt64(n) == MagLeq(n.mag, IF n.neg THEN MinInt64 ELSE MaxInt64)

\* int(s) succeeds and sqlite3 binds its value
IntArgOk(s) == IsInt(s) /\ FitsInt64(ParseInt(s))

\* sqlite3 binds a Python str as UTF-8; the statement raises
\* UnicodeEncodeError for a str that holds a surrogate (U+D800..U+DFFF)
Encodes(t) == \A i \in 1..Len(t) : t[i] < 55296 \/ t[i] > 57343

RECURSIVE TextLess(_, _)
\* a comes before b in the order of SQLite's BINARY collation: memcmp of the
\* UTF-8 bytes, which is the order of the code points, the shorter first
TextLess(a, b) ==
    IF b = <<>> THEN FALSE
    ELSE IF a = <<>> THEN TRUE
    ELSE IF a[1] # b[1] THEN a[1] < b[1]
    ELSE TextLess(Tail(a), Tail(b))

\* id.startswith("g")
StartsWithG(s) == Len(s) > 0 /\ s[1] = 103

\* id.removeprefix("g")
RemovePrefixG(s) == IF StartsWithG(s) THEN Tail(s) ELSE s

\* "User #"
UserPrefix == <<85, 115, 101, 114, 32, 35>>
\* "Group #"
GroupPrefix == <<71, 114, 111, 117, 112, 32, 35>>

\* f"User #{x}" where x is already text
UserPlaceholder(s) == UserPrefix \o s

\* f"Group #{id_int}"
GroupPlaceholder(n) == GroupPrefix \o IntToStr(n)

\* SQLite folds the upper case letters of ASCII, and no others, when it
\* compares under LIKE
Lower(c) == IF 65 <= c /\ c <= 90 THEN c + 32 ELSE c

\* name LIKE 'User #%'
LikeUserHash(name) ==
    /\ Len(name) >= Len(UserPrefix)
    /\ \A i \in 1..Len(UserPrefix) : Lower(name[i]) = Lower(UserPrefix[i])

\* str.lower(): every step-th character from lo to hi, in the entries
\* <<lo, hi, step, delta>>, becomes the character delta code points further
LowerRuns ==
    <<<<65, 90, 1, 32>>, <<192, 214, 1, 32>>, <<216, 222, 1, 32>>,
      <<256, 302, 2, 1>>, <<306, 310, 2, 1>>, <<313, 327, 2, 1>>,
      <<330, 374, 2, 1>>, <<376, 376, 1, -121>>, <<377, 381, 2, 1>>,
      <<385, 385, 1, 210>>, <<386, 388, 2, 1>>, <<390, 390, 1, 206>>,
      <<391, 391, 1, 1>>, <<393, 394, 1, 205>>, <<395, 395, 1, 1>>,
      <<398, 398, 1, 79>>, <<399, 399, 1, 202>>, <<400, 400, 1, 203>>,
      <<401, 401, 1, 1>>, <<403, 403, 1, 205>>, <<404, 404, 1, 207>>,
      <<406, 406, 1, 211>>, <<407, 407, 1, 209>>, <<408, 408, 1, 1>>,
      <<412, 412, 1, 211>>, <<413, 413, 1, 213>>, <<415, 415, 1, 214>>,
      <<416, 420, 2, 1>>, <<422, 422, 1, 218>>, <<423, 423, 1, 1>>,
      <<425, 425, 1, 218>>, <<428, 428, 1, 1>>, <<430, 430, 1, 218>>,
      <<431, 431, 1, 1>>, <<433, 434, 1, 217>>, <<435, 437, 2, 1>>,
      <<439, 439, 1, 219>>, <<440, 440, 1, 1>>, <<444, 444, 1, 1>>,
      <<452, 452, 1, 2>>, <<453, 453, 1, 1>>, <<455, 455, 1, 2>>,
      <<456, 456, 1, 1>>, <<458, 458, 1, 2>>, <<459, 475, 2, 1>>,
      <<478, 494, 2, 1>>, <<497, 497, 1, 2>>, <<498, 500, 2, 1>>,
      <<502, 502, 1, -97>>, <<503, 503, 1, -56>>, <<504, 542, 2, 1>>,
      <<544, 544, 1, -130>>, <<546, 562, 2, 1>>, <<570, 570, 1, 10795>>,
      <<571, 571, 1, 1>>, <<573, 573, 1, -163>>, <<574, 574, 1, 10792>>,
      <<577, 577, 1, 1>>, <<579, 579, 1, -195>>, <<580, 580, 1, 69>>,
      <<581, 581, 1, 71>>, <<582, 590, 2, 1>>, <<880, 882, 2, 1>>,
      <<886, 886, 1, 1>>, <<895, 895, 1, 116>>, <<902, 902, 1, 38>>,
      <<904, 906, 1, 37>>, <<908, 908, 1, 64>>, <<910, 911, 1, 63>>,
      <<913, 929, 1, 32>>, <<931, 939, 1, 32>>, <<975, 975, 1, 8>>,
      <<984, 1006, 2, 1>>, <<1012, 1012, 1, -60>>, <<1015, 1015, 1, 1>>,
      <<1017, 1017, 1, -7>>, <<1018, 1018, 1, 1>>, <<1021, 1023, 1, -130>>,
      <<1024, 1039, 1, 80>>, <<1040, 1071, 1, 32>>, <<1120, 1152, 2, 1>>,
      <<1162, 1214, 2, 1>>, <<1216, 1216, 1, 15>>, <<1217, 1229, 2, 1>>,
      <<1232, 1326, 2, 1>>, <<1329, 1366, 1, 48>>, <<4256, 4293, 1, 7264>>,
      <<4295, 4295, 1, 7264>>, <<4301, 4301, 1, 7264>>,
      <<5024, 5103, 1, 38864>>, <<5104, 5109, 1, 8>>,
      <<7312, 7354, 1, -3008>>, <<7357, 7359, 1, -3008>>,
      <<7680, 7828, 2, 1>>, <<7838, 7838, 1, -7615>>, <<7840, 7934, 2, 1>>,
      <<7944, 7951, 1, -8>>, <<7960, 7965, 1, -8>>, <<7976, 7983, 1, -8>>,
      <<7992, 7999, 1, -8>>, <<8008, 8013, 1, -8>>, <<8025, 8031, 2, -8>>,
      <<8040, 8047, 1, -8>>, <<8072, 8079, 1, -8>>, <<8088, 8095, 1, -8>>,
      <<8104, 8111, 1, -8>>, <<8120, 8121, 1, -8>>, <<8122, 8123, 1, -74>>,
      <<8124, 8124, 1, -9>>, <<8136, 8139, 1, -86>>, <<8140, 8140, 1, -9>>,
      <<8152, 8153, 1, -8>>, <<8154, 8155, 1, -100>>, <<8168, 8169, 1, -8>>,
      <<8170, 8171, 1, -112>>, <<8172, 8172, 1, -7>>,
      <<8184, 8185, 1, -128>>, <<8186, 8187, 1, -126>>,
      <<8188, 8188, 1, -9>>, <<8486, 8486, 1, -7517>>,
      <<8490, 8490, 1, -8383>>, <<8491, 8491, 1, -8262>>,
      <<8498, 8498, 1, 28>>, <<8544, 8559, 1, 16>>, <<8579, 8579, 1, 1>>,
      <<9398, 9423, 1, 26>>, <<11264, 11311, 1, 48>>, <<11360, 11360, 1, 1>>,
      <<11362, 11362, 1, -10743>>, <<11363, 11363, 1, -3814>>,
      <<11364, 11364, 1, -10727>>, <<11367, 11371, 2, 1>>,
      <<11373, 11373, 1, -10780>>, <<11374, 11374, 1, -10749>>,
      <<11375, 11375, 1, -10783>>, <<11376, 11376, 1, -10782>>,
      <<11378, 11378, 1, 1>>, <<11381, 11381, 1, 1>>,
      <<11390, 11391, 1, -10815>>, <<11392, 11490, 2, 1>>,
      <<11499, 11501, 2, 1>>, <<11506, 11506, 1, 1>>, <<42560, 42604, 2, 1>>,
      <<42624, 42650, 2, 1>>, <<42786, 42798, 2, 1>>, <<42802, 42862, 2, 1>>,
      <<42873, 42875, 2, 1>>, <<42877, 42877, 1, -35332>>,
      <<42878, 42886, 2, 1>>, <<42891, 42891, 1, 1>>,
      <<42893, 42893, 1, -42280>>, <<42896, 42898, 2, 1>>,
      <<42902, 42920, 2, 1>>, <<42922, 42922, 1, -42308>>,
      <<42923, 42923, 1, -42319>>, <<42924, 42924, 1, -42315>>,
      <<42925, 42925, 1, -42305>>, <<42926, 42926, 1, -42308>>,
      <<42928, 42928, 1, -42258>>, <<42929, 42929, 1, -42282>>,
      <<42930, 42930, 1, -42261>>, <<42931, 42931, 1, 928>>,
      <<42932, 42946, 2, 1>>, <<42948, 42948, 1, -48>>,
      <<42949, 42949, 1, -42307>>, <<42950, 42950, 1, -35384>>,
      <<42951, 42953, 2, 1>>, <<42960, 42960, 1, 1>>, <<42966, 42968, 2, 1>>,
      <<42997, 42997, 1, 1>>, <<65313, 65338, 1, 32>>,
      <<66560, 66599, 1, 40>>, <<66736, 66771, 1, 40>>,
      <<66928, 66938, 1, 39>>, <<66940, 66954, 1, 39>>,
      <<66956, 66962, 1, 39>>, <<66964, 66965, 1, 39>>,
      <<68736, 68786, 1, 64>>, <<71840, 71871, 1, 32>>,
      <<93760, 93791, 1, 32>>, <<125184, 125217, 1, 34>>>>

\* the characters that are cased and not case-ignorable, as ranges <<lo, hi>>
CasedRanges ==
    <<<<65, 90>>, <<97, 122>>, <<170, 170>>, <<181, 181>>, <<186, 186>>,
      <<192, 214>>, <<216, 246>>, <<248, 442>>, <<444, 447>>, <<452, 659>>,
      <<661, 687>>, <<880, 883>>, <<886, 887>>, <<891, 893>>, <<895, 895>>,
      <<902, 902>>, <<904, 906>>, <<908, 908>>, <<910, 929>>, <<931, 1013>>,
      <<1015, 1153>>, <<1162, 1327>>, <<1329, 1366>>, <<1376, 1416>>,
      <<4256, 4293>>, <<4295, 4295>>, <<4301, 4301>>, <<4304, 4346>>,
      <<4349, 4351>>, <<5024, 5109>>, <<5112, 5117>>, <<7296, 7304>>,
      <<7312, 7354>>, <<7357, 7359>>, <<7424, 7467>>, <<7531, 7543>>,
      <<7545, 7578>>, <<7680, 7957>>, <<7960, 7965>>, <<7968, 8005>>,
      <<8008, 8013>>, <<8016, 8023>>, <<8025, 8025>>, <<8027, 8027>>,
      <<8029, 8029>>, <<8031, 8061>>, <<8064, 8116>>, <<8118, 8124>>,
      <<8126, 8126>>, <<8130, 8132>>, <<8134, 8140>>, <<8144, 8147>>,
      <<8150, 8155>>, <<8160, 8172>>, <<8178, 8180>>, <<8182, 8188>>,
      <<8450, 8450>>, <<8455, 8455>>, <<8458, 8467>>, <<8469, 8469>>,
      <<8473, 8477>>, <<8484, 8484>>, <<8486, 8486>>, <<8488, 8488>>,
      <<8490, 8493>>, <<8495, 8500>>, <<8505, 8505>>, <<8508, 8511>>,
      <<8517, 8521>>, <<8526, 8526>>, <<8544, 8575>>, <<8579, 8580>>,
      <<9398, 9449>>, <<11264, 11387>>, <<11390, 11492>>, <<11499, 11502>>,
      <<11506, 11507>>, <<11520, 11557>>, <<11559, 11559>>, <<11565, 11565>>,
      <<42560, 42605>>, <<42624, 42651>>, <<42786, 42863>>, <<42865, 42887>>,
      <<42891, 42894>>, <<42896, 42954>>, <<42960, 42961>>, <<42963, 42963>>,
      <<42965, 42969>>, <<42997, 42998>>, <<43002, 43002>>, <<43824, 43866>>,
      <<43872, 43880>>, <<43888, 43967>>, <<64256, 64262>>, <<64275, 64279>>,
      <<65313, 65338>>, <<65345, 65370>>, <<66560, 66639>>, <<66736, 66771>>,
      <<66776, 66811>>, <<66928, 66938>>, <<66940, 66954>>, <<66956, 66962>>,
      <<66964, 66965>>, <<66967, 66977>>, <<66979, 66993>>, <<66995, 67001>>,
      <<67003, 67004>>, <<68736, 68786>>, <<68800, 68850>>, <<71840, 71903>>,
      <<93760, 93823>>, <<119808, 119892>>, <<119894, 119964>>,
      <<119966, 119967>>, <<119970, 119970>>, <<119973, 119974>>,
      <<119977, 119980>>, <<119982, 119993>>, <<119995, 119995>>,
      <<119997, 120003>>, <<120005, 120069>>, <<120071, 120074>>,
      <<120077, 120084>>, <<120086, 120092>>, <<120094, 120121>>,
      <<120123, 120126>>, <<120128, 120132>>, <<120134, 120134>>,
      <<120138, 120144>>, <<120146, 120485>>, <<120488, 120512>>,
      <<120514, 120538>>, <<120540, 120570>>, <<120572, 120596>>,
      <<120598, 120628>>, <<120630, 120654>>, <<120656, 120686>>,
      <<120688, 120712>>, <<120714, 120744>>, <<120746, 120770>>,
      <<120772, 120779>>, <<122624, 122633>>, <<122635, 122654>>,
      <<125184, 125251>>, <<127280, 127305>>, <<127312, 127337>>,
      <<127344, 127369>>>>

\* the case-ignorable characters, as ranges <<lo, hi>>
CaseIgnorableRanges ==
    <<<<39, 39>>, <<46, 46>>, <<58, 58>>, <<94, 94>>, <<96, 96>>,
      <<168, 168>>, <<173, 173>>, <<175, 175>>, <<180, 180>>, <<183, 184>>,
      <<688, 879>>, <<884, 885>>, <<890, 890>>, <<900, 901>>, <<903, 903>>,
      <<1155, 1161>>, <<1369, 1369>>, <<1375, 1375>>, <<1425, 1469>>,
      <<1471, 1471>>, <<1473, 1474>>, <<1476, 1477>>, <<1479, 1479>>,
      <<1524, 1524>>, <<1536, 1541>>, <<1552, 1562>>, <<1564, 1564>>,
      <<1600, 1600>>, <<1611, 1631>>, <<1648, 1648>>, <<1750, 1757>>,
      <<1759, 1768>>, <<1770, 1773>>, <<1807, 1807>>, <<1809, 1809>>,
      <<1840, 1866>>, <<1958, 1968>>, <<2027, 2037>>, <<2042, 2042>>,
      <<2045, 2045>>, <<2070, 2093>>, <<2137, 2139>>, <<2184, 2184>>,
      <<2192, 2193>>, <<2200, 2207>>, <<2249, 2306>>, <<2362, 2362>>,
      <<2364, 2364>>, <<2369, 2376>>, <<2381, 2381>>, <<2385, 2391>>,
      <<2402, 2403>>, <<2417, 2417>>, <<2433, 2433>>, <<2492, 2492>>,
      <<2497, 2500>>, <<2509, 2509>>, <<2530, 2531>>, <<2558, 2558>>,
      <<2561, 2562>>, <<2620, 2620>>, <<2625, 2626>>, <<2631, 2632>>,
      <<2635, 2637>>, <<2641, 2641>>, <<2672, 2673>>, <<2677, 2677>>,
      <<2689, 2690>>, <<2748, 2748>>, <<2753, 2757>>, <<2759, 2760>>,
      <<2765, 2765>>, <<2786, 2787>>, <<2810, 2815>>, <<2817, 2817>>,
      <<2876, 2876>>, <<2879, 2879>>, <<2881, 2884>>, <<2893, 2893>>,
      <<2901, 2902>>, <<2914, 2915>>, <<2946, 2946>>, <<3008, 3008>>,
      <<3021, 3021>>, <<3072, 3072>>, <<3076, 3076>>, <<3132, 3132>>,
      <<3134, 3136>>, <<3142, 3144>>, <<3146, 3149>>, <<3157, 3158>>,
      <<3170, 3171>>, <<3201, 3201>>, <<3260, 3260>>, <<3263, 3263>>,
      <<3270, 3270>>, <<3276, 3277>>, <<3298, 3299>>, <<3328, 3329>>,
      <<3387, 3388>>, <<3393, 3396>>, <<3405, 3405>>, <<3426, 3427>>,
      <<3457, 3457>>, <<3530, 3530>>, <<3538, 3540>>, <<3542, 3542>>,
      <<3633, 3633>>, <<3636, 3642>>, <<3654, 3662>>, <<3761, 3761>>,
      <<3764, 3772>>, <<3782, 3782>>, <<3784, 3789>>, <<3864, 3865>>,
      <<3893, 3893>>, <<3895, 3895>>, <<3897, 3897>>, <<3953, 3966>>,
      <<3968, 3972>>, <<3974, 3975>>, <<3981, 3991>>, <<3993, 4028>>,
      <<4038, 4038>>, <<4141, 4144>>, <<4146, 4151>>, <<4153, 4154>>,
      <<4157, 4158>>, <<4184, 4185>>, <<4190, 4192>>, <<4209, 4212>>,
      <<4226, 4226>>, <<4229, 4230>>, <<4237, 4237>>, <<4253, 4253>>,
      <<4348, 4348>>, <<4957, 4959>>, <<5906, 5908>>, <<5938, 5939>>,
      <<5970, 5971>>, <<6002, 6003>>, <<6068, 6069>>, <<6071, 6077>>,
      <<6086, 6086>>, <<6089, 6099>>, <<6103, 6103>>, <<6109, 6109>>,
      <<6155, 6159>>, <<6211, 6211>>, <<6277, 6278>>, <<6313, 6313>>,
      <<6432, 6434>>, <<6439, 6440>>, <<6450, 6450>>, <<6457, 6459>>,
      <<6679, 6680>>, <<6683, 6683>>, <<6742, 6742>>, <<6744, 6750>>,
      <<6752, 6752>>, <<6754, 6754>>, <<6757, 6764>>, <<6771, 6780>>,
      <<6783, 6783>>, <<6823, 6823>>, <<6832, 6862>>, <<6912, 6915>>,
      <<6964, 6964>>, <<6966, 6970>>, <<6972, 6972>>, <<6978, 6978>>,
      <<7019, 7027>>, <<7040, 7041>>, <<7074, 7077>>, <<7080, 7081>>,
      <<7083, 7085>>, <<7142, 7142>>, <<7144, 7145>>, <<7149, 7149>>,
      <<7151, 7153>>, <<7212, 7219>>, <<7222, 7223>>, <<7288, 7293>>,
      <<7376, 7378>>, <<7380, 7392>>, <<7394, 7400>>, <<7405, 7405>>,
      <<7412, 7412>>, <<7416, 7417>>, <<7468, 7530>>, <<7544, 7544>>,
      <<7579, 7679>>, <<8125, 8125>>, <<8127, 8129>>, <<8141, 8143>>,
      <<8157, 8159>>, <<8173, 8175>>, <<8189, 8190>>, <<8203, 8207>>,
      <<8216, 8217>>, <<8228, 8228>>, <<8231, 8231>>, <<8234, 8238>>,
      <<8288, 8292>>, <<8294, 8303>>, <<8305, 8305>>, <<8319, 8319>>,
      <<8336, 8348>>, <<8400, 8432>>, <<11388, 11389>>, <<11503, 11505>>,
      <<11631, 11631>>, <<11647, 11647>>, <<11744, 11775>>, <<11823, 11823>>,
      <<12293, 12293>>, <<12330, 12333>>, <<12337, 12341>>, <<12347, 12347>>,
      <<12441, 12446>>, <<12540, 12542>>, <<40981, 40981>>, <<42232, 42237>>,
      <<42508, 42508>>, <<42607, 42610>>, <<42612, 42621>>, <<42623, 42623>>,
      <<42652, 42655>>, <<42736, 42737>>, <<42752, 42785>>, <<42864, 42864>>,
      <<42888, 42890>>, <<42994, 42996>>, <<43000, 43001>>, <<43010, 43010>>,
      <<43014, 43014>>, <<43019, 43019>>, <<43045, 43046>>, <<43052, 43052>>,
      <<43204, 43205>>, <<43232, 43249>>, <<43263, 43263>>, <<43302, 43309>>,
      <<43335, 43345>>, <<43392, 43394>>, <<43443, 43443>>, <<43446, 43449>>,
      <<43452, 43453>>, <<43471, 43471>>, <<43493, 43494>>, <<43561, 43566>>,
      <<43569, 43570>>, <<43573, 43574>>, <<43587, 43587>>, <<43596, 43596>>,
      <<43632, 43632>>, <<43644, 43644>>, <<43696, 43696>>, <<43698, 43700>>,
      <<43703, 43704>>, <<43710, 43711>>, <<43713, 43713>>, <<43741, 43741>>,
      <<43756, 43757>>, <<43763, 43764>>, <<43766, 43766>>, <<43867, 43871>>,
      <<43881, 43883>>, <<44005, 44005>>, <<44008, 44008>>, <<44013, 44013>>,
      <<64286, 64286>>, <<64434, 64450>>, <<65024, 65039>>, <<65043, 65043>>,
      <<65056, 65071>>, <<65106, 65106>>, <<65109, 65109>>, <<65279, 65279>>,
      <<65287, 65287>>, <<65294, 65294>>, <<65306, 65306>>, <<65342, 65342>>,
      <<65344, 65344>>, <<65392, 65392>>, <<65438, 65439>>, <<65507, 65507>>,
      <<65529, 65531>>, <<66045, 66045>>, <<66272, 66272>>, <<66422, 66426>>,
      <<67456, 67461>>, <<67463, 67504>>, <<67506, 67514>>, <<68097, 68099>>,
      <<68101, 68102>>, <<68108, 68111>>, <<68152, 68154>>, <<68159, 68159>>,
      <<68325, 68326>>, <<68900, 68903>>, <<69291, 69292>>, <<69446, 69456>>,
      <<69506, 69509>>, <<69633, 69633>>, <<69688, 69702>>, <<69744, 69744>>,
      <<69747, 69748>>, <<69759, 69761>>, <<69811, 69814>>, <<69817, 69818>>,
      <<69821, 69821>>, <<69826, 69826>>, <<69837, 69837>>, <<69888, 69890>>,
      <<69927, 69931>>, <<69933, 69940>>, <<70003, 70003>>, <<70016, 70017>>,
      <<70070, 70078>>, <<70089, 70092>>, <<70095, 70095>>, <<70191, 70193>>,
      <<70196, 70196>>, <<70198, 70199>>, <<70206, 70206>>, <<70367, 70367>>,
      <<70371, 70378>>, <<70400, 70401>>, <<70459, 70460>>, <<70464, 70464>>,
      <<70502, 70508>>, <<70512, 70516>>, <<70712, 70719>>, <<70722, 70724>>,
      <<70726, 70726>>, <<70750, 70750>>, <<70835, 70840>>, <<70842, 70842>>,
      <<70847, 70848>>, <<70850, 70851>>, <<71090, 71093>>, <<71100, 71101>>,
      <<71103, 71104>>, <<71132, 71133>>, <<71219, 71226>>, <<71229, 71229>>,
      <<71231, 71232>>, <<71339, 71339>>, <<71341, 71341>>, <<71344, 71349>>,
      <<71351, 71351>>, <<71453, 71455>>, <<71458, 71461>>, <<71463, 71467>>,
      <<71727, 71735>>, <<71737, 71738>>, <<71995, 71996>>, <<71998, 71998>>,
      <<72003, 72003>>, <<72148, 72151>>, <<72154, 72155>>, <<72160, 72160>>,
      <<72193, 72202>>, <<72243, 72248>>, <<72251, 72254>>, <<72263, 72263>>,
      <<72273, 72278>>, <<72281, 72283>>, <<72330, 72342>>, <<72344, 72345>>,
      <<72752, 72758>>, <<72760, 72765>>, <<72767, 72767>>, <<72850, 72871>>,
      <<72874, 72880>>, <<72882, 72883>>, <<72885, 72886>>, <<73009, 73014>>,
      <<73018, 73018>>, <<73020, 73021>>, <<73023, 73029>>, <<73031, 73031>>,
      <<73104, 73105>>, <<73109, 73109>>, <<73111, 73111>>, <<73459, 73460>>,
      <<78896, 78904>>, <<92912, 92916>>, <<92976, 92982>>, <<92992, 92995>>,
      <<94031, 94031>>, <<94095, 94111>>, <<94176, 94177>>, <<94179, 94180>>,
      <<110576, 110579>>, <<110581, 110587>>, <<110589, 110590>>,
      <<113821, 113822>>, <<113824, 113827>>, <<118528, 118573>>,
      <<118576, 118598>>, <<119143, 119145>>, <<119155, 119170>>,
      <<119173, 119179>>, <<119210, 119213>>, <<119362, 119364>>,
      <<121344, 121398>>, <<121403, 121452>>, <<121461, 121461>>,
      <<121476, 121476>>, <<121499, 121503>>, <<121505, 121519>>,
      <<122880, 122886>>, <<122888, 122904>>, <<122907, 122913>>,
      <<122915, 122916>>, <<122918, 122922>>, <<123184, 123197>>,
      <<123566, 123566>>, <<123628, 123631>>, <<125136, 125142>>,
      <<125252, 125259>>, <<127995, 127999>>, <<917505, 917505>>,
      <<917536, 917631>>, <<917760, 917999>>>>

InRanges(c, T) == \E k \in 1..Len(T) : T[k][1] <= c /\ c <= T[k][2]

IsCased(c) == InRanges(c, CasedRanges)

IsCaseIgnorable(c) == InRanges(c, CaseIgnorableRanges)

RECURSIVE SkipBack(_, _)
\* the nearest position at or before j that holds no case-ignorable character
SkipBack(s, j) ==
    IF j >= 1 /\ IsCaseIgnorable(s[j]) THEN SkipBack(s, j - 1) ELSE j

RECURSIVE SkipForward(_, _)
\* the nearest position at or after j that holds no case-ignorable character
SkipForward(s, j) ==
    IF j <= Len(s) /\ IsCaseIgnorable(s[j]) THEN SkipForward(s, j + 1) ELSE j

\* the capital sigma at position i ends a word: a cased letter before it and
\* none after it, case-ignorable characters skipped
FinalSigma(s, i) ==
    LET b == SkipBack(s, i - 1)
        f == SkipForward(s, i + 1)
    IN  /\ b >= 1 /\ IsCased(s[b])
        /\ f > Len(s) \/ ~IsCased(s[f])

\* the characters of LowerRuns, each with the character it becomes
LowerMap ==
    LET Hit(c, r) == r[1] <= c /\ c <= r[2] /\ (c - r[1]) % r[3] = 0
        Run(k) == {c \in LowerRuns[k][1]..LowerRuns[k][2] : Hit(c, LowerRuns[k])}
        dom == UNION {Run(k) : k \in 1..Len(LowerRuns)}
    IN  [c \in dom |->
            c + LowerRuns[CHOOSE k \in 1..Len(LowerRuns) : c \in Run(k)][4]]

\* what str.lower() writes for the character at position i: the capital
\* sigma depends on its place in the word, the capital I with dot above
\* becomes two characters
LowerChar(s, i) ==
    LET c == s[i]
    IN  IF c = 931 THEN <<IF FinalSigma(s, i) THEN 962 ELSE 963>>
        ELSE IF c = 304 THEN <<105, 775>>
        ELSE IF c \in DOMAIN LowerMap THEN <<LowerMap[c]>>
        ELSE <<c>>

RECURSIVE LowerFrom(_, _)
LowerFrom(s, i) ==
    IF i > Len(s) THEN <<>> ELSE LowerChar(s, i) \o LowerFrom(s, i + 1)

\* ext.lower()
LowerExt(ext) == LowerFrom(ext, 1)

----------------------------------------------------------------------------
(* The name resolver (Index.db).                                            *)

NoIndex == [present |-> FALSE]

\* `if index:` -- a connection object is truthy, None is not
HasIndex(idx) == idx.present

\* SELECT displayName FROM 'group' WHERE userId = ?
\* The rows of the result in the order they are returned; <<>> is "no row".
LookupGroup(idx, id) ==
    IF id \in DOMAIN idx.group THEN <<idx.group[id]>> ELSE <<>>

\* SELECT displayName FROM friend WHERE userId = ?
\*   UNION SELECT displayName FROM friends_info WHERE userId = ?
\* SQLite computes a UNION in a temporary b-tree keyed by the row, which
\* keeps one of two equal rows, and reads the result back from it: the rows
\* come in ascending order of displayName, whichever table holds which
\* (displayName is text under the default BINARY collation).
LookupUser(idx, id) ==
    LET f == IF id \in DOMAIN idx.friend THEN <<idx.friend[id]>> ELSE <<>>
        i == IF id \in DOMAIN idx.friends_info THEN <<idx.friends_info[id]>> ELSE <<>>
    IN  IF f = i \/ i = <<>> THEN f
        ELSE IF f = <<>> THEN i
        ELSE IF TextLess(f[1], i[1]) THEN f \o i
        ELSE i \o f

\* row = res.fetchone(); row[0]
FirstRow(rows) == Head(rows)

----------------------------------------------------------------------------
(* The DHT database.                                                       *)

Empty == <<>>

\* an initialised DHT database with no rows in the tables the importer writes
EmptyStore ==
    [servers |-> Empty, channels |-> Empty, users |-> Empty,
     messages |-> Empty, attachments |-> Empty, message_attachments |-> {},
     message_replied_to |-> Empty, download_blobs |-> Empty,
     download_metadata |-> Empty]

\* UpsertServer with a conflict clause that takes every excluded column
UpsertServerReplacesRow(servers, id, name, type) ==
    IF id \in DOMAIN servers
    THEN [servers EXCEPT ![id] = [name |-> name, type |-> type]]
    ELSE servers @@ (id :> [name |-> name, type |-> type])

\* INSERT INTO servers ... ON CONFLICT DO UPDATE SET name = excluded.name
UpsertServer(servers, id, name, type) ==
    IF id \in DOMAIN servers
    THEN [servers EXCEPT ![id].name = name]
    ELSE servers @@ (id :> [name |-> name, type |-> type])

\* INSERT INTO channels ... ON CONFLICT DO UPDATE SET name = excluded.name
UpsertChannel(channels, id, server, name) ==
    IF id \in DOMAIN channels
    THEN [channels EXCEPT ![id].name = name]
    ELSE channels @@ (id :> [server |-> server, name |-> name])

\* UpsertUser that inserts the generated name for a new id and takes the
\* entry's name only on conflict
UpsertUserInsertsPlaceholder(users, id, name) ==
    IF id \in DOMAIN users
    THEN [users EXCEPT ![id].name =
              IF LikeUserHash(users[id].name) THEN name ELSE users[id].name]
    ELSE users @@ (id :> [name |-> UserPlaceholder(IntToStr(id))])

\* INSERT INTO users ... ON CONFLICT DO UPDATE
\*   SET name = IIF(name LIKE 'User #%', excluded.name, name)
UpsertUser(users, id, name) ==
    IF id \in DOMAIN users
    THEN [users EXCEPT ![id].name =
              IF LikeUserHash(users[id].name) THEN name ELSE users[id].name]
    ELSE users @@ (id :> [name |-> name])

\* INSERT INTO <table> ... ON CONFLICT DO NOTHING, for a table keyed by its
\* first column
InsertOrIgnore(table, key, row) ==
    IF key \in DOMAIN table THEN table ELSE table @@ (key :> row)

----------------------------------------------------------------------------
(* load_zalo_conversations: one line.                                      *)

\* a line json.loads rejects
BadJson == [bad |-> TRUE]

ConvEntry(userId) == [bad |-> FALSE, userId |-> userId]

Raised(st) == [st |-> st, raised |-> TRUE]
Done(st) == [st |-> st, raised |-> FALSE]

\* name of a group conversation
GroupName(idx, id, id_int) ==
    IF HasIndex(idx)
    THEN IF LookupGroup(idx, id) # <<>> THEN FirstRow(LookupGroup(idx, id))
         ELSE GroupPlaceholder(id_int)
    ELSE GroupPlaceholder(id_int)

\* name of a direct conversation
DmName(idx, id, id_int) ==
    IF HasIndex(idx)
    THEN IF LookupUser(idx, id) # <<>> THEN FirstRow(LookupUser(idx, id))
         ELSE UserPlaceholder(IntToStr(id_int))
    ELSE UserPlaceholder(IntToStr(id_int))

\* the kind written for an id
KindOf(id) == IF StartsWithG(id) THEN "GROUP" ELSE "DM"

\* the body of the loop of load_zalo_conversations up to, not including, commit
ProcessConvLine(st, line, idx) ==
    IF line.bad THEN Raised(st)
    ELSE LET id == line.userId
             digits == RemovePrefixG(id)
         IN  IF ~IsInt(digits) THEN Raised(st)
             ELSE LET id_int == ParseInt(digits)
                      name == IF StartsWithG(id) THEN GroupName(idx, id, id_int)
                              ELSE DmName(idx, id, id_int)
                  IN  IF ~FitsInt64(id_int) THEN Raised(st)
                      ELSE Done([st EXCEPT
                          !.servers = UpsertServer(@, id_int, name, KindOf(id)),
                          !.channels = UpsertChannel(@, id_int, id_int, name)])

----------------------------------------------------------------------------
(* load_zalo_messages: one line.                                           *)

Null == [isNull |-> TRUE]

\* a quote object; fromD is optional
Quote(ownerId, cliMsgId) ==
    [isNull |-> FALSE, ownerId |-> ownerId, cliMsgId |-> cliMsgId]
QuoteD(ownerId, cliMsgId, fromD) ==
    [isNull |-> FALSE, ownerId |-> ownerId, cliMsgId |-> cliMsgId, fromD |-> fromD]

\* entry["message"]: a JSON string, or a JSON object d (a function of its keys)
StrMsg(text) == [isStr |-> TRUE, text |-> text]
DictMsg(d) == [isStr |-> FALSE, d |-> d]

\* "1700000000000": milliseconds since the epoch
ServerTime == <<49, 55, 48, 48, 48, 48, 48, 48, 48, 48, 48, 48, 48>>

MsgEntry(cliMsgId, fromUid, toUid, dName, msgType, message, quote) ==
    [bad |-> FALSE, cliMsgId |-> cliMsgId, msgId |-> cliMsgId, fromUid |-> fromUid,
     toUid |-> toUid, dName |-> dName, msgType |-> msgType, message |-> message,
     serverTime |-> ServerTime, quote |-> quote]

\* the Vietnamese for "[Message has been recalled]", as line 188 spells it
RecalledText ==
    <<91, 84, 105, 110, 32, 110, 104, 7855, 110, 32, 273, 227, 32, 98, 7883, 32,
      116, 104, 117, 32, 104, 7891, 105, 93>>

\* "rtf"
Rtf == <<114, 116, 102>>

\* message_quote_owner_id = int(ownerId if ownerId != "0" else uid)
QuoteOwnerText(q, u) == IF q.ownerId # <<48>> THEN q.ownerId ELSE u

\* entry["quote"]["fromD"] if "fromD" in entry["quote"] and entry["quote"]["fromD"]
\*   else f"User #{message_quote_owner_id}"
QuoteOwnerName(q, owner) ==
    IF "fromD" \in DOMAIN q /\ q.fromD # <<>> THEN q.fromD
    ELSE UserPlaceholder(IntToStr(owner))

\* `if entry["quote"] is not None:` and its two statements. int() of the owner
\* id comes first; the INSERT into message_replied_to raises when int()
\* rejects cliMsgId or a parameter does not bind; the INSERT into users, which
\* raises when a parameter does not bind, finds the reply row inserted
QuoteStep(st, e, u) ==
    IF e.quote.isNull THEN Done(st)
    ELSE IF ~IsInt(QuoteOwnerText(e.quote, u)) THEN Raised(st)
    ELSE IF ~IntArgOk(e.cliMsgId) \/ ~Encodes(e.quote.cliMsgId) THEN Raised(st)
    ELSE LET owner == ParseInt(QuoteOwnerText(e.quote, u))
             name == QuoteOwnerName(e.quote, owner)
             st1 == [st EXCEPT
                        !.message_replied_to =
                            InsertOrIgnore(@, ParseInt(e.cliMsgId),
                                           [replied_to_id |-> e.quote.cliMsgId])]
         IN  IF ~FitsInt64(owner) \/ ~Encodes(name) THEN Raised(st1)
             ELSE Done([st1 EXCEPT !.users = UpsertUser(@, owner, name)])

\* message_text of a tag 1 / 20 entry: [ok, text]
MessageText(e) ==
    IF e.message.isStr THEN [ok |-> TRUE, text |-> e.message.text]
    ELSE LET d == e.message.d
         IN  IF "action" \in DOMAIN d /\ d.action = Rtf
             THEN IF "title" \in DOMAIN d THEN [ok |-> TRUE, text |-> d.title]
                  ELSE [ok |-> FALSE]
             ELSE IF e.msgType = 20 THEN [ok |-> TRUE, text |-> RecalledText]
             ELSE [ok |-> FALSE]

\* the sender's name of a tag 1 / 20 entry
SenderName(e, idx) ==
    IF e.dName # <<>> THEN e.dName
    ELSE IF HasIndex(idx)
         THEN IF LookupUser(idx, e.fromUid) # <<>>
              THEN FirstRow(LookupUser(idx, e.fromUid))
              ELSE UserPlaceholder(e.fromUid)
         ELSE UserPlaceholder(e.fromUid)

\* the int(...) arguments of the INSERT INTO messages all convert and bind
MessageArgsOk(e) ==
    /\ IntArgOk(e.cliMsgId)
    /\ IntArgOk(e.fromUid)
    /\ IntArgOk(RemovePrefixG(e.toUid))
    /\ IntArgOk(e.serverTime)

\* INSERT INTO messages ... ON CONFLICT DO NOTHING
InsertMessage(messages, e, text) ==
    InsertOrIgnore(messages, ParseInt(e.cliMsgId),
        [sender_id |-> ParseInt(e.fromUid),
         channel_id |-> ParseInt(RemovePrefixG(e.toUid)),
         text |-> text,
         timestamp |-> ParseInt(e.serverTime)])

\* TextCase without the INSERT INTO users
TextCaseSkipsUser(st, e, idx) ==
    IF ~MessageText(e).ok THEN Raised(st)
    ELSE IF ~MessageArgsOk(e) \/ ~Encodes(MessageText(e).text) THEN Raised(st)
    ELSE Done([st EXCEPT !.messages = InsertMessage(@, e, MessageText(e).text)])

\* case 1 | 20. The SELECT of the sender's name binds fromUid, and raises for
\* a fromUid with a surrogate, which int() rejects as well.
TextCase(st, e, idx) ==
    IF ~MessageText(e).ok THEN Raised(st)
    ELSE IF ~IntArgOk(e.fromUid) \/ ~Encodes(SenderName(e, idx)) THEN Raised(st)
    ELSE LET st1 == [st EXCEPT
                        !.users = UpsertUser(@, ParseInt(e.fromUid), SenderName(e, idx))]
         IN  IF ~MessageArgsOk(e) \/ ~Encodes(MessageText(e).text) THEN Raised(st1)
             ELSE Done([st1 EXCEPT
                     !.messages = InsertMessage(@, e, MessageText(e).text)])

\* s.find(c, from): the first position from `from` on that holds c, 0 for none
Find(s, c, from) ==
    LET I == {i \in from..Len(s) : s[i] = c}
    IN  IF I = {} THEN 0 ELSE CHOOSE i \in I : \A j \in I : i <= j

\* s.rfind(c): the last position that holds c, 0 for none
RFind(s, c) ==
    LET I == {i \in 1..Len(s) : s[i] = c}
    IN  IF I = {} THEN 0 ELSE CHOOSE i \in I : \A j \in I : j <= i

\* c in s
Has(s, c) == \E i \in 1..Len(s) : s[i] = c

\* s from position i on
From(s, i) == SubSeq(s, i, Len(s))

\* s before the first c; s when it holds no c
UpTo(s, c) == IF Has(s, c) THEN SubSeq(s, 1, Find(s, c, 1) - 1) ELSE s

RECURSIVE Split(_, _)
\* s.split(c)
Split(s, c) ==
    IF Has(s, c) THEN <<UpTo(s, c)>> \o Split(From(s, Find(s, c, 1) + 1), c)
    ELSE <<s>>

RECURSIVE LStripC0(_)
\* url.lstrip(_WHATWG_C0_CONTROL_OR_SPACE): U+0000..U+0020
LStripC0(s) == IF s # <<>> /\ s[1] <= 32 THEN LStripC0(Tail(s)) ELSE s

\* a character other than tab, line feed and carriage return
IsSafeUrlChar(c) == c \notin {9, 10, 13}

\* urlsplit: the URL without its leading control characters and spaces and
\* without any tab, line feed or carriage return
Cleaned(url) == SelectSeq(LStripC0(url), IsSafeUrlChar)

IsAsciiAlpha(c) == (65 <= c /\ c <= 90) \/ (97 <= c /\ c <= 122)

\* scheme_chars
IsSchemeChar(c) == IsAsciiAlpha(c) \/ (48 <= c /\ c <= 57) \/ c \in {43, 45, 46}

\* the position of the ":" that ends the scheme of a cleaned URL, 0 when the
\* URL has no scheme
SchemeEnd(c) ==
    LET i == Find(c, 58, 1)
    IN  IF i > 1 /\ IsAsciiAlpha(c[1]) /\ \A k \in 1..(i - 1) : IsSchemeChar(c[k])
        THEN i ELSE 0

\* url[:i].lower()
Scheme(c) == LowerExt(SubSeq(c, 1, SchemeEnd(c) - 1))

\* the cleaned URL after its scheme
AfterScheme(c) == From(c, SchemeEnd(c) + 1)

\* url[:2] == '//'
HasNetloc(r) == Len(r) >= 2 /\ r[1] = 47 /\ r[2] = 47

\* _splitnetloc(url, 2): the position of the first "/", "?" or "#" after
\* the "//", the end of the text when there is none
NetlocEnd(r) ==
    LET I == {i \in 3..Len(r) : r[i] \in {47, 63, 35}}
    IN  IF I = {} THEN Len(r) + 1 ELSE CHOOSE i \in I : \A j \in I : i <= j

Netloc(r) == IF HasNetloc(r) THEN SubSeq(r, 3, NetlocEnd(r) - 1) ELSE <<>>

AfterNetloc(r) == IF HasNetloc(r) THEN From(r, NetlocEnd(r)) ELSE r

\* netloc.partition('[')[2].partition(']')[0]
BracketedHost(n) == UpTo(From(n, Find(n, 91, 1) + 1), 93)

IsAsciiDigit(c) == 48 <= c /\ c <= 57

\* ipaddress: _HEX_DIGITS
IsHexDigit(c) ==
    IsAsciiDigit(c) \/ (65 <= c /\ c <= 70) \/ (97 <= c /\ c <= 102)

\* re.match(r"\Av[a-fA-F0-9]+\..+\Z", h), for an h that begins with "v"
IsIPvFuture(h) ==
    \E k \in 3..(Len(h) - 1) :
        h[k] = 46 /\ \A j \in 2..(k - 1) : IsHexDigit(h[j])

\* ipaddress: _parse_octet accepts o
IsOctet(o) ==
    /\ o # <<>>
    /\ \A k \in 1..Len(o) : IsAsciiDigit(o[k])
    /\ Len(o) <= 3
    /\ o = <<48>> \/ o[1] # 48
    /\ Len(o) = 3 => 100 * (o[1] - 48) + 10 * (o[2] - 48) + (o[3] - 48) <= 255

\* ipaddress: IPv4Address(a) succeeds
IsIPv4(a) ==
    LET p == Split(a, 46)
    IN  a # <<>> /\ Len(p) = 4 /\ \A k \in 1..4 : IsOctet(p[k])

\* ipaddress: _parse_hextet accepts h
IsHextet(h) ==
    h # <<>> /\ Len(h) <= 4 /\ \A k \in 1..Len(h) : IsHexDigit(h[k])

\* ipaddress: IPv6Address._ip_int_from_string(a) succeeds
IsIPv6(a) ==
    LET p == Split(a, 58)
        v4 == Has(p[Len(p)], 46)
        \* an IPv4 suffix is replaced by its two hextets
        parts == IF v4 THEN SubSeq(p, 1, Len(p) - 1) \o <<<<48>>, <<48>>>> ELSE p
        n == Len(parts)
        skips == {i \in 2..(n - 1) : parts[i] = <<>>}
    IN  /\ a # <<>>
        /\ Len(p) >= 3
        /\ v4 => IsIPv4(p[Len(p)])
        /\ n <= 9
        /\ Cardinality(skips) <= 1
        /\ IF skips # {}
           THEN LET skip == CHOOSE i \in skips : TRUE
                    hi == IF parts[1] = <<>> THEN skip - 2 ELSE skip - 1
                    lo == IF parts[n] = <<>> THEN n - skip - 1 ELSE n - skip
                IN  /\ parts[1] = <<>> => hi = 0
                    /\ parts[n] = <<>> => lo = 0
                    /\ hi + lo <= 7
                    /\ \A k \in 1..hi : IsHextet(parts[k])
                    /\ \A k \in (n - lo + 1)..n : IsHextet(parts[k])
           ELSE /\ n = 8
                /\ \A k \in 1..n : IsHextet(parts[k])

\* ipaddress.ip_address(h) returns an IPv6Address: the address, and after a
\* "%" a scope id that is not empty and holds no "%"
IsScopedIPv6(h) ==
    LET pct == Find(h, 37, 1)
    IN  IF pct = 0 THEN IsIPv6(h)
        ELSE /\ pct < Len(h)
             /\ ~Has(From(h, pct + 1), 37)
             /\ IsIPv6(SubSeq(h, 1, pct - 1))

\* _check_bracketed_host(h) returns
IsBracketedHost(h) ==
    IF h # <<>> /\ h[1] = 118 THEN IsIPvFuture(h) ELSE IsScopedIPv6(h)

\* the characters outside ASCII that NFKC turns into text with "/", "?",
\* "#", "@" or ":"
NfkcDelimiters ==
    {8263, 8264, 8265, 8448, 8449, 8453, 8454, 10868, 65043, 65046, 65109,
     65110, 65119, 65131, 65283, 65295, 65306, 65311, 65312}

\* urlsplit raises ValueError for this netloc: one bracket without the other,
\* brackets around no IPv6 or IPvFuture address, or (_checknetloc) a
\* character that NFKC turns into a delimiter
NetlocRaises(n) ==
    \/ Has(n, 91) # Has(n, 93)
    \/ Has(n, 91) /\ Has(n, 93) /\ ~IsBracketedHost(BracketedHost(n))
    \/ \E i \in 1..Len(n) : n[i] \in NfkcDelimiters

\* urlparse(image_url) raises ValueError
UrlRaises(url) == NetlocRaises(Netloc(AfterScheme(Cleaned(url))))

\* uses_params: the schemes, "" among them, whose last path segment ends at ";"
UsesParams ==
    {<<>>,
     <<102, 116, 112>>,
     <<104, 100, 108>>,
     <<112, 114, 111, 115, 112, 101, 114, 111>>,
     <<104, 116, 116, 112>>,
     <<105, 109, 97, 112>>,
     <<104, 116, 116, 112, 115>>,
     <<115, 104, 116, 116, 112>>,
     <<114, 116, 115, 112>>,
     <<114, 116, 115, 112, 115>>,
     <<114, 116, 115, 112, 117>>,
     <<115, 105, 112>>,
     <<115, 105, 112, 115>>,
     <<109, 109, 115>>,
     <<115, 102, 116, 112>>,
     <<116, 101, 108>>}

\* _splitparams(p)[0], for a p with ";": p before the first ";" of its last
\* segment
SplitParams(p) ==
    LET slash == RFind(p, 47)
        i == Find(p, 59, IF slash = 0 THEN 1 ELSE slash)
    IN  IF i = 0 THEN p ELSE SubSeq(p, 1, i - 1)

\* urlparse(image_url).path
UrlPath(url) ==
    LET c == Cleaned(url)
        p == UpTo(UpTo(AfterNetloc(AfterScheme(c)), 35), 63)
    IN  IF Scheme(c) \in UsesParams /\ Has(p, 59) THEN SplitParams(p) ELSE p

\* os.path.basename(p)
Basename(p) == From(p, RFind(p, 47) + 1)

\* os.path.splitext(name)[1]: from the last "." on, when a character other
\* than "." comes before it
SplitExt(name) ==
    LET dot == RFind(name, 46)
    IN  IF dot > 0 /\ \E k \in 1..(dot - 1) : name[k] # 46 THEN From(name, dot)
        ELSE <<>>

\* os.path.basename(urlparse(image_url).path)
ImageName(url) == Basename(UrlPath(url))

\* os.path.splitext(image_name)[1][1:].lower()
ImageType(url) == LowerExt(From(SplitExt(ImageName(url)), 2))

\* "image/", "jpg", "jpeg"
ImagePrefix == <<105, 109, 97, 103, 101, 47>>
Jpg == <<106, 112, 103>>
Jpeg == <<106, 112, 101, 103>>

\* f"image/{'jpeg' if image_type == 'jpg' else image_type}"
MimeType(image_type) ==
    ImagePrefix \o (IF image_type = Jpg THEN Jpeg ELSE image_type)

\* hashlib.md5(image_url.encode()).hexdigest(): one digest per text, written
\* "md5:" and the text
Md5Hex(text) == <<109, 100, 53, 58>> \o text

\* "_group"
GroupSuffix == <<95, 103, 114, 111, 117, 112>>

\* os.path.join(path, uid, "ZaloDownloads", "picture", f"{chan}{'_group' or ''}",
\*              f"z{msgId}_{image_hash}.{image_type}"), below `path`: the
\* components of the path, for a uid and a msgId without "/"; the last is
\* "z" msgId "_" hash "." type
SavedImagePath(u, e, url) ==
    <<u, "ZaloDownloads", "picture",
      RemovePrefixG(e.toUid) \o (IF StartsWithG(e.toUid) THEN GroupSuffix ELSE <<>>),
      <<122>> \o e.msgId \o <<95>> \o Md5Hex(url) \o <<46>> \o ImageType(url)>>

\* json.loads(entry["message"]["params"]): params text that parses to an object
ParamsJson(obj) == [valid |-> TRUE, obj |-> obj]
ParamsGarbage == [valid |-> FALSE]

None == "None"

\* params.get(key)
ParamsGet(obj, key) == IF key \in DOMAIN obj THEN obj[key] ELSE None

\* case 2, given the files below the extraction directory (path -> bytes)
ImageCase(st, e, u, files) ==
    IF ~MessageArgsOk(e) THEN Raised(st)
    ELSE LET st1 == [st EXCEPT !.messages = InsertMessage(@, e, <<>>)]
             m == e.message
         IN  IF m.isStr THEN Raised(st1)
             ELSE IF "params" \notin DOMAIN m.d THEN Raised(st1)
             ELSE IF ~m.d.params.valid THEN Raised(st1)
             ELSE IF "oriUrl" \notin DOMAIN m.d THEN Raised(st1)
             ELSE IF UrlRaises(m.d.oriUrl) THEN Raised(st1)
             ELSE IF ~Encodes(m.d.oriUrl) THEN Raised(st1)
             ELSE LET params == m.d.params.obj
                      image_url == m.d.oriUrl
                      image_type == ImageType(image_url)
                      saved == SavedImagePath(u, e, image_url)
                      exists == saved \in DOMAIN files
                      size == IF exists THEN Len(files[saved]) ELSE 0
                      hasBlob == exists /\ Len(files[saved]) > 0
                      id == ParseInt(e.cliMsgId)
                      st2 == [st1 EXCEPT
                                 !.attachments = InsertOrIgnore(@, id,
                                     [name |-> ImageName(image_url),
                                      type |-> MimeType(image_type),
                                      normalized_url |-> image_url,
                                      download_url |-> image_url,
                                      size |-> size,
                                      width |-> ParamsGet(params, "width"),
                                      height |-> ParamsGet(params, "height")]),
                                 !.message_attachments = @ \cup {<<id, id>>}]
                  IN  IF ~hasBlob THEN Done(st2)
                      ELSE Done([st2 EXCEPT
                              !.download_blobs = InsertOrIgnore(@, image_url,
                                  [blob |-> files[saved]]),
                              !.download_metadata = InsertOrIgnore(@, image_url,
                                  [download_url |-> image_url, status |-> 200,
                                   type |-> MimeType(image_type), size |-> size])])

\* Dispatch whose default branch handles the entry as text
DispatchDefaultsToText(st, e, u, idx, files) ==
    CASE e.msgType = 2 -> ImageCase(st, e, u, files)
      [] OTHER -> TextCase(st, e, idx)

\* match entry["msgType"]
Dispatch(st, e, u, idx, files) ==
    CASE e.msgType \in {1, 20} -> TextCase(st, e, idx)
      [] e.msgType = 2 -> ImageCase(st, e, u, files)
      [] OTHER -> Done(st)

\* the body of the loop of load_zalo_messages up to, not including, commit
ProcessMsgLine(st, line, u, idx, files) ==
    IF line.bad THEN Raised(st)
    ELSE LET q == QuoteStep(st, line, u)
         IN  IF q.raised THEN q ELSE Dispatch(q.st, line, u, idx, files)

----------------------------------------------------------------------------
(* Inputs of the import.                                                   *)

\* "Al", "Bo", "Fam"
Al == <<65, 108>>
Bo == <<66, 111>>
Fam == <<70, 97, 109>>
\* "user #x": a display name a person chose that begins like a generated one
UserX == <<117, 115, 101, 114, 32, 35, 120>>

\* Index.db: group g1 is named "Fam"; user 1 is named "Bo" in friend and "Al"
\* in friends_info, so the UNION yields two rows for it, "Al" first
TheIndex ==
    [present |-> TRUE,
     group |-> (<<103, 49>> :> Fam),
     friend |-> (<<49>> :> Bo),
     friends_info |-> (<<49>> :> Al)]

\* connect_to_index: no Index.db, or that Index.db
Indexes == {NoIndex, TheIndex}

\* "2"
AccountIds == {<<50>>}

\* lines with userId "g1" and "1"
ConvLines == {BadJson, ConvEntry(<<103, 49>>), ConvEntry(<<49>>)}

\* " https://c/p.q/a<TAB>.Jpg;v?k=1": the image a.Jpg
UrlA ==
    <<32, 104, 116, 116, 112, 115, 58, 47, 47, 99, 47, 112, 46, 113, 47, 97, 9,
      46, 74, 112, 103, 59, 118, 63, 107, 61, 49>>
\* "//c/b.png"
UrlB == <<47, 47, 99, 47, 98, 46, 112, 110, 103>>

\* "hi"
Hi == <<104, 105>>

ImageMsg(url) ==
    DictMsg([params |-> ParamsJson([width |-> 4, height |-> 3]), oriUrl |-> url])

\* Ids are written as the log holds them: "1", "g1", and forms int() reads
\* as well: "+1", "-3", "g 1 ", "0_2", U+0663 (ARABIC-INDIC DIGIT THREE).
\* Every entry carries the serverTime 1700000000000.
MsgLines ==
    { \* text of the account, whose chosen name begins like a generated one,
      \* in reply to a message of user 1, whom the quote names
      MsgEntry(<<50>>, <<50>>, <<103, 49>>, UserX, 1, StrMsg(Hi),
               QuoteD(<<49>>, <<49>>, Al)),
      \* recalled message of an unnamed sender in the direct conversation "+1"
      MsgEntry(<<50>>, <<49>>, <<43, 49>>, <<>>, 20, DictMsg([catId |-> 0]), Null),
      \* image whose file is on disk, sender "-3" seen nowhere else
      MsgEntry(<<49>>, <<45, 51>>, <<103, 49>>, <<>>, 2, ImageMsg(UrlA), Null),
      \* image without params, sender U+0663, conversation "g 1 "
      MsgEntry(<<50>>, <<1635>>, <<103, 32, 49, 32>>, <<>>, 2,
               DictMsg([oriUrl |-> UrlB]), Null),
      \* voice message with a quote of the account's own message, no name
      MsgEntry(<<49>>, <<49>>, <<103, 49>>, Al, 3, StrMsg(<<>>),
               Quote(<<48>>, <<50>>)),
      \* deleted-message marker with a quote whose owner "1_" is no number
      MsgEntry(<<50>>, <<51>>, <<49>>, <<>>, -27, StrMsg(<<>>),
               QuoteD(<<49, 95>>, <<50>>, Al)),
      \* a tag the importer has never seen, cliMsgId "0_2"
      MsgEntry(<<48, 95, 50>>, <<49>>, <<103, 49>>, <<>>, 99,
               DictMsg([x |-> 1]), Null),
      \* image of the account in reply to a message of its own, no file on disk
      MsgEntry(<<51>>, <<50>>, <<103, 49>>, <<>>, 2, ImageMsg(UrlB),
               Quote(<<48>>, <<49>>)) }

RECURSIVE SeqsUpTo(_, _)
\* the sequences over S of length at most n
SeqsUpTo(S, n) ==
    IF n = 0 THEN {<<>>}
    ELSE LET shorter == SeqsUpTo(S, n - 1)
         IN  shorter \cup {Append(q, x) : q \in {r \in shorter : Len(r) = n - 1}, x \in S}

\* the files below <extraction dir>: the picture of message 1 in group 1
MediaFiles(u) ==
    SavedImagePath(u, [toUid |-> <<103, 49>>, msgId |-> <<49>>], UrlA)
        :> <<255, 216, 255>>

----------------------------------------------------------------------------
(* main: the import.                                                       *)

ExtractIdle ==
    /\ dkey = <<>> /\ nsuffix = 1 /\ outdir = {} /\ tarTop = {}
    /\ xpc = "idle" /\ iv = <<>> /\ ret = None

Init ==
    /\ convLog \in SeqsUpTo(ConvLines, MaxConvLines)
    /\ msgLog \in SeqsUpTo(MsgLines, MaxMsgLines)
    /\ uid \in AccountIds
    /\ db = EmptyStore
    /\ conn = EmptyStore
    /\ index = NoIndex
    /\ phase = "idle"
    /\ pos = 1
    /\ run = 0
    /\ hist = <<>>
    /\ ExtractIdle

\* the last finished run
LastRun == hist[Len(hist)]

Finished(outcome, where, line) ==
    [index |-> index, outcome |-> outcome, where |-> where, line |-> line, db |-> db]

\* main(): connect_to_database, connect_to_index, call load_zalo_conversations
StartRun ==
    /\ phase = "idle"
    /\ run < MaxRuns
    /\ \E idx \in Indexes : index' = idx
    /\ run' = run + 1
    /\ conn' = db
    /\ phase' = "conv"
    /\ pos' = 1
    /\ UNCHANGED <<convLog, msgLog, uid, db, hist, extractVars>>

\* load_zalo_conversations: one iteration of `for line in f`
ConvLine ==
    /\ phase = "conv"
    /\ pos <= Len(convLog)
    /\ LET r == ProcessConvLine(conn, convLog[pos], index)
       IN  /\ conn' = r.st
           /\ IF r.raised
              THEN /\ phase' = "idle"
                   /\ hist' = Append(hist, Finished("raised", "conv", pos))
                   /\ UNCHANGED <<db, pos>>
              ELSE /\ db' = r.st
                   /\ pos' = pos + 1
                   /\ UNCHANGED <<phase, hist>>
    /\ UNCHANGED <<convLog, msgLog, uid, index, run, extractVars>>

\* load_zalo_conversations returns; main calls load_zalo_messages
ConvEnd ==
    /\ phase = "conv"
    /\ pos > Len(convLog)
    /\ phase' = "msg"
    /\ pos' = 1
    /\ UNCHANGED <<convLog, msgLog, uid, db, conn, index, run, hist,
                   extractVars>>

\* MsgLine that commits in a `finally`: what the line did before it raised stays
MsgLineCommitsOnRaise ==
    /\ phase = "msg"
    /\ pos <= Len(msgLog)
    /\ LET r == ProcessMsgLine(conn, msgLog[pos], uid, index, MediaFiles(uid))
       IN  /\ conn' = r.st
           /\ db' = r.st
           /\ IF r.raised
              THEN /\ phase' = "idle"
                   /\ hist' = Append(hist, [Finished("raised", "msg", pos)
                                               EXCEPT !.db = r.st])
                   /\ UNCHANGED pos
              ELSE /\ pos' = pos + 1
                   /\ UNCHANGED <<phase, hist>>
    /\ UNCHANGED <<convLog, msgLog, uid, index, run, extractVars>>

\* MsgLine inside one transaction per run: a raise undoes the lines before it
MsgLineRollsBackRun ==
    /\ phase = "msg"
    /\ pos <= Len(msgLog)
    /\ LET r == ProcessMsgLine(conn, msgLog[pos], uid, index, MediaFiles(uid))
           start == IF hist = <<>> THEN EmptyStore ELSE LastRun.db
       IN  /\ conn' = r.st
           /\ IF r.raised
              THEN /\ phase' = "idle"
                   /\ db' = start
                   /\ hist' = Append(hist, [Finished("raised", "msg", pos)
                                               EXCEPT !.db = start])
                   /\ UNCHANGED pos
              ELSE /\ db' = r.st
                   /\ pos' = pos + 1
                   /\ UNCHANGED <<phase, hist>>
    /\ UNCHANGED <<convLog, msgLog, uid, index, run, extractVars>>

\* load_zalo_messages: one iteration of `for line in f`
MsgLine ==
    /\ phase = "msg"
    /\ pos <= Len(msgLog)
    /\ LET r == ProcessMsgLine(conn, msgLog[pos], uid, index, MediaFiles(uid))
       IN  /\ conn' = r.st
           /\ IF r.raised
              THEN /\ phase' = "idle"
                   /\ hist' = Append(hist, Finished("raised", "msg", pos))
                   /\ UNCHANGED <<db, pos>>
              ELSE /\ db' = r.st
                   /\ pos' = pos + 1
                   /\ UNCHANGED <<phase, hist>>
    /\ UNCHANGED <<convLog, msgLog, uid, index, run, extractVars>>

\* load_zalo_messages returns; main returns
MsgEnd ==
    /\ phase = "msg"
    /\ pos > Len(msgLog)
    /\ phase' = "idle"
    /\ hist' = Append(hist, Finished("returned", "msg", pos))
    /\ UNCHANGED <<convLog, msgLog, uid, db, conn, index, run, pos,
                   extractVars>>

Next == StartRun \/ ConvLine \/ ConvEnd \/ MsgLine \/ MsgEnd

Spec == Init /\ [][Next]_vars

----------------------------------------------------------------------------
(* extract_zalo_backup.                                                    *)

AesBlock == 16
IvTail == 13

\* b"\x00" * 16
ZeroIv == [i \in 1..AesBlock |-> 0]

\* b"zie"
Zie == <<122, 105, 101>>

\* dkey[:13]
KeyHead(k) == SubSeq(k, 1, IF Len(k) < IvTail THEN Len(k) ELSE IvTail)

\* the if/else on len(path.suffixes)
SelectIv(k, n) == IF n = 1 THEN ZeroIv ELSE Zie \o KeyHead(k)

\* AES.new(key, AES.MODE_CBC, iv) accepts only an IV of one block
AesAccepts(v) == Len(v) = AesBlock

\* output.mkdir(exist_ok=True); tar.extractall(output): what was there stays
Extracted(dir, top) == dir \cup top

\* os.listdir(output)[0]: the directory order is arbitrary, so any entry may be
\* first; no entry at all is an IndexError (the empty set of results)
ListdirFirst(dir) == dir

\* the passphrase of length n: n distinct bytes
Passphrase(n) == [i \in 1..n |-> 64 + i]

Account == <<"acct", 1>>
TarNames == {<<"acct", i>> : i \in 1..MaxTarTop}
StaleNames == {<<"stale", i>> : i \in 1..MaxStale} \cup {Account}
SuffixCounts == {0, 1, 2}

InitExtract ==
    /\ dkey \in {Passphrase(n) : n \in 0..MaxKeyLen}
    /\ nsuffix \in SuffixCounts
    /\ outdir \in SUBSET StaleNames
    /\ tarTop \in SUBSET TarNames
    /\ xpc = "start"
    /\ iv = <<>>
    /\ ret = None
    /\ convLog = <<>> /\ msgLog = <<>> /\ uid = <<>>
    /\ db = EmptyStore /\ conn = EmptyStore /\ index = NoIndex
    /\ phase = "off" /\ pos = 1 /\ run = 0 /\ hist = <<>>

\* key, iv, cipher = AES.new(...)
MakeCipher ==
    /\ xpc = "start"
    /\ iv' = SelectIv(dkey, nsuffix)
    /\ xpc' = IF AesAccepts(iv') THEN "keyed" ELSE "raised"
    /\ UNCHANGED <<dkey, nsuffix, outdir, tarTop, ret, importVars>>

\* output.mkdir(parents=True, exist_ok=True): with no suffix to strip, output
\* is the container file itself and mkdir raises FileExistsError
MkdirAccepts(n) == n > 0

\* decrypt, mkdir, extractall, return os.listdir(output)[0]; the container is
\* a whole number of blocks and decrypts to a readable archive
ExtractAndReturn ==
    /\ xpc = "keyed"
    /\ IF ~MkdirAccepts(nsuffix)
       THEN xpc' = "raised" /\ UNCHANGED <<outdir, ret>>
       ELSE /\ outdir' = Extracted(outdir, tarTop)
            /\ IF ListdirFirst(outdir') = {}
               THEN xpc' = "raised" /\ ret' = ret
               ELSE xpc' = "returned" /\ ret' \in ListdirFirst(outdir')
    /\ UNCHANGED <<dkey, nsuffix, tarTop, iv, importVars>>

NextExtract == MakeCipher \/ ExtractAndReturn

SpecExtract == InitExtract /\ [][NextExtract]_vars

----------------------------------------------------------------------------
(* Properties of extract_zalo_backup.                                      *)

\* b zero-padded or truncated to n bytes
PadTo(b, n) == [i \in 1..n |-> IF i <= Len(b) THEN b[i] ELSE 0]

\* C8: for every passphrase length and filename, the IV is 16 zero bytes when
\* the filename has exactly one suffix, and when it has more than one it is
\* "zie" followed by the first 13 bytes of the passphrase, zero-padded or
\* truncated to exactly 16 bytes.
C8_IvPaddedToBlock ==
    xpc \in {"keyed", "raised", "returned"} =>
        /\ nsuffix = 1 => iv = ZeroIv
        /\ nsuffix > 1 => iv = PadTo(Zie \o KeyHead(dkey), AesBlock)

\* C5: extract_zalo_backup returns only when the output directory holds
\* exactly one top-level entry after extraction, and returns that entry; with
\* zero or several entries it fails instead of returning.
C5_ReturnsSoleEntry ==
    xpc = "returned" => outdir = {ret}

----------------------------------------------------------------------------
(* Properties of the import.                                               *)

\* a name of the form "User #<id>" or "Group #<id>" for this id
IsGenerated(name, id) ==
    name = UserPlaceholder(IntToStr(id)) \/ name = GroupPlaceholder(id)

\* C1: over any lines and runs of load_zalo_conversations, with or without an
\* index in each run, once the stored name of a Server or Channel row is a real
\* (non-placeholder) name, no later upsert of the same id with a placeholder
\* changes it. (The claim's second sentence, that a name is replaced only from
\* placeholder to real name, is stronger still.)
C1_RealNameNeverRegresses ==
    [][/\ \A id \in DOMAIN db.servers :
              ~IsGenerated(db.servers[id].name, id)
                  => ~IsGenerated(db'.servers[id].name, id)
       /\ \A id \in DOMAIN db.channels :
              ~IsGenerated(db.channels[id].name, id)
                  => ~IsGenerated(db'.channels[id].name, id)]_vars

\* C2: idempotence of the full import. When main has run twice in succession
\* over the same logs with the same index and media directory, the second run
\* leaves every table exactly as the first run left it.
C2_SecondRunChangesNothing ==
    \A i \in 1..(Len(hist) - 1) :
        hist[i].index = hist[i + 1].index => hist[i + 1].db = hist[i].db

\* both runs returned with the same Index.db; the direct conversation 1 took
\* the name "Al" that friends_info holds, the first row of the UNION
C2_Witness ==
    /\ Len(hist) = 2
    /\ hist[1].index = hist[2].index
    /\ hist[2].outcome = "returned"
    /\ DOMAIN hist[2].db.servers # {}
    /\ DOMAIN hist[2].db.attachments # {}
    /\ DOMAIN hist[2].db.download_blobs # {}
    /\ \E u \in DOMAIN hist[2].db.users : ~LikeUserHash(hist[2].db.users[u].name)
    /\ HasIndex(hist[2].index)
    /\ \E s \in DOMAIN hist[2].db.servers : hist[2].db.servers[s].name = Al

\* the entry is about user id as the owner of its quote
QuoteIsOf(e, id) ==
    /\ ~e.quote.isNull
    /\ IntArgOk(QuoteOwnerText(e.quote, uid))
    /\ ParseInt(QuoteOwnerText(e.quote, uid)) = id

\* the entry is about user id as the sender of a tag 1 / 20 message
SenderIs(e, id) ==
    /\ e.msgType \in {1, 20}
    /\ IntArgOk(e.fromUid)
    /\ ParseInt(e.fromUid) = id

\* the names an entry carries for user id
CarriedNames(e, id) ==
    (IF QuoteIsOf(e, id) THEN {QuoteOwnerName(e.quote, id)} ELSE {})
        \cup (IF SenderIs(e, id) THEN {SenderName(e, index)} ELSE {})

\* a step that processes and commits one line of the message log
CommitsMsgLine == phase = "msg" /\ pos <= Len(msgLog) /\ pos' = pos + 1

\* a placeholder name of user id: "User #" and then the id, in any of the
\* spellings int() reads as id ("User #1", and "User #+1" as the importer
\* writes it for the sender "+1")
IsUserPlaceholder(name, id) ==
    /\ Len(name) > Len(UserPrefix)
    /\ SubSeq(name, 1, Len(UserPrefix)) = UserPrefix
    /\ LET rest == SubSeq(name, Len(UserPrefix) + 1, Len(name))
       IN  IsInt(rest) /\ ParseInt(rest) = id

\* C3: name preservation in load_zalo_messages. For every user id, a stored
\* name that is not a placeholder is unchanged by an entry that carries a
\* placeholder name for that id, as sender of a tag 1/20 message or as quote
\* owner; a stored placeholder "User #<id>" is replaced by the genuine name
\* that an entry carries for that id.
C3_UserNamePreserved ==
    [][CommitsMsgLine =>
        \A id \in DOMAIN db.users :
            LET stored == db.users[id].name
                names == CarriedNames(msgLog[pos], id)
            IN  /\ (/\ ~IsUserPlaceholder(stored, id)
                    /\ names # {}
                    /\ \A n \in names : IsUserPlaceholder(n, id))
                       => db'.users[id].name = stored
                /\ (/\ IsUserPlaceholder(stored, id)
                    /\ names # {}
                    /\ \A n \in names : ~IsUserPlaceholder(n, id))
                       => db'.users[id].name \in names]_vars

\* the tags with no handler: the listed no-op tags and every unrecognised one
IsNoOpTag(t) == t \notin {1, 20, 2}

\* a step that reads a well-formed line with a no-op tag
ReadsNoOpLine ==
    /\ phase = "msg" /\ pos <= Len(msgLog)
    /\ ~msgLog[pos].bad
    /\ IsNoOpTag(msgLog[pos].msgType)

\* C4 as stated: an entry with a no-op or unrecognised tag, whatever its other
\* fields (a quote included), adds no row to messages, attachments,
\* message_attachments or message_replied_to, and raises no error.
C4_NoOpAddsNoRow ==
    [][ReadsNoOpLine =>
        /\ pos' = pos + 1
        /\ db'.messages = db.messages
        /\ db'.attachments = db.attachments
        /\ db'.message_attachments = db.message_attachments
        /\ db'.message_replied_to = db.message_replied_to]_vars

\* the quote step of the entry raises nothing: the entry has no quote, or
\* int() accepts the quote's owner id and the entry's cliMsgId and every
\* parameter of its two statements binds
QuoteConverts(e) ==
    e.quote.isNull
        \/ LET o == QuoteOwnerText(e.quote, uid)
           IN  /\ IntArgOk(o)
               /\ IntArgOk(e.cliMsgId)
               /\ Encodes(e.quote.cliMsgId)
               /\ Encodes(QuoteOwnerName(e.quote, ParseInt(o)))

\* C4 amended: such an entry adds no row to messages, attachments or
\* message_attachments. With a null quote it raises no error and adds no row
\* to message_replied_to. With a non-null quote it is handled as every other
\* entry with a quote: when int() accepts the quote's owner id and the
\* entry's cliMsgId and SQLite takes the values (64-bit integers, text that
\* encodes as UTF-8) it raises no error, the reply row of its cliMsgId
\* exists afterwards and the owner of the quote has a row in users; otherwise
\* the line raises and commits nothing.
C4_NoOpAddsOnlyReply ==
    [][ReadsNoOpLine =>
        LET e == msgLog[pos]
        IN  /\ db'.messages = db.messages
            /\ db'.attachments = db.attachments
            /\ db'.message_attachments = db.message_attachments
            /\ e.quote.isNull =>
                   /\ pos' = pos + 1
                   /\ db'.message_replied_to = db.message_replied_to
            /\ (~e.quote.isNull /\ QuoteConverts(e)) =>
                   LET id == ParseInt(e.cliMsgId)
                   IN  /\ pos' = pos + 1
                       /\ ParseInt(QuoteOwnerText(e.quote, uid)) \in DOMAIN db'.users
                       /\ id \in DOMAIN db'.message_replied_to
                       /\ DOMAIN db'.message_replied_to
                              = DOMAIN db.message_replied_to \cup {id}
                       /\ \A k \in DOMAIN db.message_replied_to :
                              db'.message_replied_to[k] = db.message_replied_to[k]
            /\ ~QuoteConverts(e) =>
                   /\ phase' = "idle"
                   /\ db' = db]_vars

\* a voice message with a quote has been read: a reply row and the row of the
\* quote's owner in users, no message row
C4_Witness ==
    /\ phase = "msg" /\ pos = 2
    /\ msgLog[1].msgType = 3
    /\ ~msgLog[1].quote.isNull
    /\ ParseInt(msgLog[1].cliMsgId) \in DOMAIN db.message_replied_to
    /\ ParseInt(QuoteOwnerText(msgLog[1].quote, uid)) \in DOMAIN db.users
    /\ DOMAIN db.messages = {}

\* line j of the message log inserts the messages row of id m, unless it exists
CreatesMessage(j, m) ==
    /\ ~msgLog[j].bad
    /\ msgLog[j].msgType \in {1, 20, 2}
    /\ IntArgOk(msgLog[j].cliMsgId)
    /\ ParseInt(msgLog[j].cliMsgId) = m

\* the last run raised while it processed an image entry, after the INSERT
\* INTO messages of that entry had run
ImageLineRaised ==
    /\ phase = "idle" /\ Len(hist) > 0
    /\ LastRun.outcome = "raised" /\ LastRun.where = "msg"
    /\ ~msgLog[LastRun.line].bad
    /\ QuoteConverts(msgLog[LastRun.line])
    /\ msgLog[LastRun.line].msgType = 2
    /\ MessageArgsOk(msgLog[LastRun.line])

\* C6 as stated: the empty-text Message row of an image entry is in the
\* committed store even when the attachment processing that follows the
\* insert raises before the per-line commit.
C6_ImageRowCommittedOnFailure ==
    ImageLineRaised =>
        ParseInt(msgLog[LastRun.line].cliMsgId) \in DOMAIN db.messages

\* C6 amended: when attachment processing raises, the Message row has been
\* inserted in the open transaction of the connection but is not committed:
\* the committed store holds a row of that cliMsgId only if an earlier line of
\* the log created it.
C6_ImageRowOnlyInTransaction ==
    ImageLineRaised =>
        LET m == ParseInt(msgLog[LastRun.line].cliMsgId)
        IN  /\ m \in DOMAIN conn.messages
            /\ m \in DOMAIN db.messages
                   <=> \E j \in 1..(LastRun.line - 1) : CreatesMessage(j, m)

C6_Witness ==
    /\ ImageLineRaised
    /\ ParseInt(msgLog[LastRun.line].cliMsgId) \in DOMAIN conn.messages
    /\ ParseInt(msgLog[LastRun.line].cliMsgId) \notin DOMAIN db.messages

RECURSIVE ConvLinesApplied(_, _, _)
\* the store after the given conversation lines, none of which raises
ConvLinesApplied(st, lines, idx) ==
    IF lines = <<>> THEN st
    ELSE ConvLinesApplied(ProcessConvLine(st, Head(lines), idx).st, Tail(lines), idx)

RECURSIVE MsgLinesApplied(_, _, _)
\* the store after the given message lines, none of which raises
MsgLinesApplied(st, lines, idx) ==
    IF lines = <<>> THEN st
    ELSE MsgLinesApplied(
             ProcessMsgLine(st, Head(lines), uid, idx, MediaFiles(uid)).st,
             Tail(lines), idx)

\* the store an uninterrupted import of the lines before the failing line of
\* run i reaches from the store run i started with
BeforeFailure(i) ==
    LET start == IF i = 1 THEN EmptyStore ELSE hist[i - 1].db
        k == hist[i].line
        idx == hist[i].index
    IN  IF hist[i].where = "conv"
        THEN ConvLinesApplied(start, SubSeq(convLog, 1, k - 1), idx)
        ELSE MsgLinesApplied(ConvLinesApplied(start, convLog, idx),
                             SubSeq(msgLog, 1, k - 1), idx)

\* C7: per-line commit. When a run has ended because line k of a log raised,
\* the effects of lines 1..k-1 (and nothing of line k) are committed; a re-run
\* over the same logs from that partial state gets through the same lines
\* without any failure, raises at line k again and ends in the store an
\* uninterrupted import of those lines reaches. (hist grows by one record when
\* a run ends, so it is enough to look at every run as it ends.)
C7_PartialProgressResumable ==
    (phase = "idle" /\ hist # <<>>) =>
        LET i == Len(hist)
        IN  /\ hist[i].outcome = "raised" => hist[i].db = BeforeFailure(i)
            /\ (i > 1 /\ hist[i - 1].outcome = "raised"
                      /\ hist[i].index = hist[i - 1].index) =>
                   /\ hist[i].outcome = "raised"
                   /\ hist[i].where = hist[i - 1].where
                   /\ hist[i].line = hist[i - 1].line
                   /\ hist[i].db = BeforeFailure(i - 1)

C7_Witness ==
    /\ Len(hist) = 2
    /\ hist[1].outcome = "raised" /\ hist[1].where = "msg" /\ hist[1].line = 2
    /\ hist[2].index = hist[1].index
    /\ hist[2].outcome = "raised"
    /\ DOMAIN hist[1].db.messages # {}
    /\ DOMAIN hist[1].db.servers # {}
    /\ hist[2].db = hist[1].db
    /\ conn # db

\* the conversation lines that name a conversation
NamesConversation(i) ==
    ~convLog[i].bad /\ IntArgOk(RemovePrefixG(convLog[i].userId))

ConvId(i) == ParseInt(RemovePrefixG(convLog[i].userId))

\* load_zalo_conversations has just returned
ConversationsLoaded == phase = "msg" /\ pos = 1

\* C9 as stated: after load_zalo_conversations, for every entry of the log the
\* Server row of its numeric id has kind GROUP when the entry's userId carries
\* the group prefix and DM otherwise, and the Channel row of that id has
\* server equal to its own id.
C9_KindFollowsEveryEntry ==
    ConversationsLoaded =>
        \A i \in 1..Len(convLog) :
            NamesConversation(i) =>
                /\ ConvId(i) \in DOMAIN db.servers
                /\ db.servers[ConvId(i)].type = KindOf(convLog[i].userId)
                /\ db.channels[ConvId(i)].server = ConvId(i)

\* the first line of the log with the numeric id of line i
FirstWithId(i) ==
    CHOOSE j \in 1..i :
        /\ NamesConversation(j) /\ ConvId(j) = ConvId(i)
        /\ \A h \in 1..(j - 1) : ~(NamesConversation(h) /\ ConvId(h) = ConvId(i))

\* C9 amended: starting from an empty store, after load_zalo_conversations the
\* Server row of an entry's numeric id has the kind of the first entry of the
\* log with that numeric id (GROUP when that entry carries the group prefix,
\* DM otherwise), which is the entry's own kind unless an earlier entry with
\* the same digits differs in the prefix; the Channel row of that id has
\* server equal to its own id.
C9_KindFollowsFirstEntry ==
    ConversationsLoaded =>
        \A i \in 1..Len(convLog) :
            NamesConversation(i) =>
                /\ ConvId(i) \in DOMAIN db.servers
                /\ db.servers[ConvId(i)].type = KindOf(convLog[FirstWithId(i)].userId)
                /\ db.channels[ConvId(i)].server = ConvId(i)

\* "g1" then "1": one row, kind GROUP, for both entries
C9_Witness ==
    /\ ConversationsLoaded
    /\ Len(convLog) = 2
    /\ NamesConversation(1) /\ NamesConversation(2)
    /\ StartsWithG(convLog[1].userId) /\ ~StartsWithG(convLog[2].userId)
    /\ ConvId(1) = ConvId(2)
    /\ db.servers[ConvId(2)].type = "GROUP"
    /\ db.channels[ConvId(2)].server = ConvId(2)

\* C10 as stated: starting from an empty store, every row of messages (created
\* by a tag 1, 20 or 2 entry) has a row in users for its sender_id.
C10_EverySenderIsUser ==
    \A m \in DOMAIN db.messages : db.messages[m].sender_id \in DOMAIN db.users

\* the line that created the messages row of id m: the first that inserts it
Creator(m) ==
    CHOOSE j \in 1..Len(msgLog) :
        CreatesMessage(j, m) /\ \A h \in 1..(j - 1) : ~CreatesMessage(h, m)

\* line j of the message log has been processed and committed, in this run or
\* in a run before it
Committed(j) ==
    \/ phase = "msg" /\ j < pos
    \/ \E i \in 1..Len(hist) : hist[i].where = "msg" /\ j < hist[i].line

\* line j upserts user id: as the owner of its quote, whatever its tag, or as
\* the sender of a tag 1 / 20 message
UpsertsUser(j, id) ==
    /\ ~msgLog[j].bad
    /\ QuoteIsOf(msgLog[j], id) \/ SenderIs(msgLog[j], id)

\* C10 amended: starting from an empty store, every row of messages created by
\* a tag 1 or tag 20 entry has a row in users for its sender_id. A tag 2
\* (image) entry does not upsert its sender: the row it created has a row in
\* users for its sender_id exactly when some committed entry, the image entry
\* itself included, upserted that user as the owner of its quote or as the
\* sender of a tag 1 / 20 message.
C10_TextSenderIsUser ==
    \A m \in DOMAIN db.messages :
        LET sender == db.messages[m].sender_id
            tag == msgLog[Creator(m)].msgType
        IN  /\ tag \in {1, 20} => sender \in DOMAIN db.users
            /\ tag = 2 =>
                   (sender \in DOMAIN db.users
                       <=> \E j \in 1..Len(msgLog) :
                               Committed(j) /\ UpsertsUser(j, sender))

\* a text row with its sender, next to the row of an image that the account
\* sent in reply to its own message: the quote of the image entry, and no
\* other entry, upserted the sender of the image
C10_Witness ==
    \E m, n \in DOMAIN db.messages :
        /\ msgLog[Creator(m)].msgType \in {1, 20}
        /\ db.messages[m].sender_id \in DOMAIN db.users
        /\ msgLog[Creator(n)].msgType = 2
        /\ db.messages[n].sender_id \in DOMAIN db.users
        /\ QuoteIsOf(msgLog[Creator(n)], db.messages[n].sender_id)
        /\ \A j \in 1..Len(msgLog) :
               UpsertsUser(j, db.messages[n].sender_id) => j = Creator(n)

----------------------------------------------------------------------------
====
